---- MODULE Spec2Model ----
(***************************************************************************)
(* State-machine model of the storage engine of Gifted-s/bd               *)
(* (src/storage_engine/storage.rs, src/memtable/inmemory.rs,              *)
(* src/key_range/range.rs): an LSM tree with a separate value log.        *)
(*                                                                         *)
(* Keys and values are byte strings, written as tuples of byte values.    *)
(* A memtable owns its Bloom filter and size counter by value and its     *)
(* skip-list index through an Arc, so a cloned memtable shares the index  *)
(* with its origin: indexes live in `heap` and memtables hold an address. *)
(***************************************************************************)
EXTENDS Integers, Sequences, FiniteSets, TLC

VARIABLES
    now,                  \* the last value Utc::now().timestamp_millis() gave
    vlog,                 \* val_log: the records of the value-log file, in file order
    vlog_head,            \* val_log.head
    vlog_tail,            \* val_log.tail
    active_memtable,      \* StorageEngine.active_memtable
    heap,                 \* the Arc<SkipMap> indexes, by address
    read_only_memtables,  \* StorageEngine.read_only_memtables (IndexMap, insertion order)
    flush_chan,           \* the flush-data mpsc channel: (table_id, table) messages
    send_tasks,           \* the spawned tasks that have not sent their message yet
    flusher_attached,     \* the flusher's Arc of read_only_memtables is the engine's
    buckets,              \* BucketMap: the buckets, each an id and a list of SST paths
    ssts,                 \* the SST files on disk, by path
    bloom_filters,        \* StorageEngine.bloom_filters (Vec, in push order)
    biggest_key_index,    \* StorageEngine.biggest_key_index: path -> biggest key
    pc,                   \* the user call in flight (&mut self admits one)
    next_id,              \* names still unused: table ids and SST paths
    flushed,              \* the number of SSTs written from memtables so far
    hist,                 \* per user key: the acknowledged writes (history)
    key_ranges            \* a KeyRange (key_range/range.rs) and its last scan

vars == <<now, vlog, vlog_head, vlog_tail, active_memtable, heap,
          read_only_memtables, flush_chan, send_tasks, flusher_attached, buckets,
          ssts, bloom_filters, biggest_key_index, pc, next_id, flushed, hist,
          key_ranges>>

---------------------------------------------------------------------------
(* Bounds of the model *)

\* Utc::now() takes the values 1..MaxClock.
MaxClock == 2
\* The value log holds at most MaxLog records (two of them the sentinels).
MaxLog == 5
\* At most MaxSst SST files are ever written from memtables.
MaxSst == 4
\* The write buffer (capacity of a memtable) in bytes.
Capacity == 31
\* The messages the flush channel buffers (mpsc::channel(100) in the engine).
FlushChanCap == 1

---------------------------------------------------------------------------
(* Program constants *)

SIZE_OF_U32 == 4
SIZE_OF_U64 == 8
SIZE_OF_U8 == 1
\* config.max_buffer_write_number
MaxBufferWriteNumber == 2
\* b"head" and b"tail"
HEAD_ENTRY_KEY == <<104, 101, 97, 100>>
TAIL_ENTRY_KEY == <<116, 97, 105, 108>>
\* TOMB_STONE_MARKER.to_le_bytes()
TombstoneValue == <<1>>
\* min_tier_sstables: the SSTs a bucket holds before it is merged.
MinTierSstables == 2
\* tombstone_gc_grace: a tombstone older than this is dropped by a merge.
TombstoneGrace == 0

\* The keys and values the user calls are made with: "a", "b" and "x", "y".
UserKeys == {<<97>>, <<98>>}
V1 == <<120>>
V2 == <<121>>
Values == {V1, V2}
\* "aaaaa": a key longer than the sentinel keys.
LongKey == <<97, 97, 97, 97, 97>>
\* Every key a caller may pass: also the empty key, a sentinel key and a long key.
AllKeys == UserKeys \cup {<<>>, HEAD_ENTRY_KEY, LongKey}

---------------------------------------------------------------------------
(* Byte strings *)

Min(a, b) == IF a <= b THEN a ELSE b

\* Ord for Vec<u8> / [u8]: lexicographic, a proper prefix is smaller.
RECURSIVE BytesLess(_, _)
BytesLess(a, b) ==
    IF b = <<>> THEN FALSE
    ELSE IF a = <<>> THEN TRUE
    ELSE IF Head(a) # Head(b) THEN Head(a) < Head(b)
    ELSE BytesLess(Tail(a), Tail(b))

BytesLeq(a, b) == a = b \/ BytesLess(a, b)

---------------------------------------------------------------------------
(* Value log (value_log.rs is not part of the sources; after spec 4.2) *)

\* key_len:u32 | value_len:u32 | created_at:u64 | is_tombstone:u8 | key | value
RecordSize(key, value) ==
    SIZE_OF_U32 + SIZE_OF_U32 + SIZE_OF_U64 + SIZE_OF_U8 + Len(key) + Len(value)

\* The offset at which the next record is written: the length of the file.
VLogEnd(log) ==
    IF log = <<>> THEN 0
    ELSE log[Len(log)].off + RecordSize(log[Len(log)].key, log[Len(log)].value)

\* ValueLog::append: the file after the append; the offset returned is VLogEnd(log).
VLogAppend(log, key, value, created_at, is_tombstone) ==
    Append(log, [off |-> VLogEnd(log), key |-> key, value |-> value,
                 created_at |-> created_at, is_tombstone |-> is_tombstone])

\* ValueLog::append advances head: head is the offset of the most recent
\* record written (spec 3).
HeadAfterAppend(log) == VLogEnd(log)

\* The offsets at which a record starts.
VLogOffsets(log) == {log[i].off : i \in 1..Len(log)}

\* ValueLog::get(offset): Some((value, is_tombstone)), or None at end of file.
VLogHas(log, offset) == offset \in VLogOffsets(log)
VLogGet(log, offset) == log[CHOOSE i \in 1..Len(log) : log[i].off = offset]

---------------------------------------------------------------------------
(* Bloom filter (bloom_filter.rs is not part of the sources; after spec    *)
(* 4.1): set records the hash of a key, contains answers for the hash,     *)
(* so there is no false negative, and a false positive for a key whose     *)
(* hash was set by another key. The hash of the model is the first byte.   *)

BloomHash(key) == IF key = <<>> THEN 0 ELSE Head(key)
BloomSet(bf, key) == bf \cup {BloomHash(key)}
BloomContains(bf, key) == BloomHash(key) \in bf

---------------------------------------------------------------------------
(* Memtable (src/memtable/inmemory.rs) *)

\* Entry::new
Entry(val_offset, created_at, is_tombstone) ==
    [off |-> val_offset, ts |-> created_at, tomb |-> is_tombstone]

\* Option::None of InMemoryTable::get and SSTable::get
NoEntry == [off |-> 0 - 1, ts |-> 0, tomb |-> FALSE]

EmptyIndex == [k \in {} |-> NoEntry]

\* SkipMap::insert: insert or overwrite.
IndexInsert(index, key, e) ==
    [k \in DOMAIN index \cup {key} |-> IF k = key THEN e ELSE index[k]]

\* InMemoryTable::with_specified_capacity_and_rate, its index at address a.
NewMemtable(a) == [index |-> a, bloom |-> {}, size |-> 0, read_only |-> FALSE]

\* InMemoryTable::insert, on the table struct: Bloom filter and size counter.
EntryLength(key) == Len(key) + SIZE_OF_U32 + SIZE_OF_U64 + SIZE_OF_U8

\* An insert that counts the entry only when the Bloom filter did not hold
\* the key.
TableInsertCountingNewKeys(t, key) ==
    [t EXCEPT !.bloom = BloomSet(@, key),
              !.size = IF BloomContains(t.bloom, key) THEN @ ELSE @ + EntryLength(key)]

TableInsert(t, key) ==
    [t EXCEPT !.bloom = BloomSet(@, key), !.size = @ + EntryLength(key)]

\* InMemoryTable::insert, on the shared index.
HeapInsert(h, t, key, e) == [h EXCEPT ![t.index] = IndexInsert(@, key, e)]

\* InMemoryTable::get: Bloom gate, then the index.
TableGet(h, t, key) ==
    IF BloomContains(t.bloom, key) /\ key \in DOMAIN h[t.index]
    THEN h[t.index][key] ELSE NoEntry

\* InMemoryTable::is_full
is_full(t, key_len) ==
    t.size + key_len + SIZE_OF_U32 + SIZE_OF_U64 + SIZE_OF_U8 >= Capacity

\* The biggest key of a non-empty set of keys (SkipMap iter().next_back()).
MaxKey(keys) == CHOOSE k \in keys : \A j \in keys : BytesLeq(j, k)

\* InMemoryTable::find_biggest_key: Err(BiggestKeyIndexError) on an empty index.
HasBiggestKey(h, t) == DOMAIN h[t.index] # {}

\* The first key of the index in key order (iter().next()).
find_smallest_key(h, t) ==
    CHOOSE k \in DOMAIN h[t.index] : \A j \in DOMAIN h[t.index] : BytesLeq(k, j)

find_biggest_key(h, t) == MaxKey(DOMAIN h[t.index])

\* index.iter().max_by_key(|e| e.value().0): the largest value offset held.
MaxOffset(index) ==
    LET offs == {index[k].off : k \in DOMAIN index}
    IN CHOOSE o \in offs : \A p \in offs : p <= o

\* InMemoryTable::clear, on the table struct (read_only is left as it is).
TableClear(t) == [t EXCEPT !.bloom = {}, !.size = 0]

---------------------------------------------------------------------------
(* SSTs, buckets, Bloom-filter list, biggest-key index *)

\* The on-disk side of the engine, as one value the flush steps thread through.
Disk == [buckets |-> buckets, ssts |-> ssts, bloom_filters |-> bloom_filters,
         biggest_key_index |-> biggest_key_index, next_id |-> next_id,
         flushed |-> flushed, ok |-> TRUE]

RECURSIVE SumSizes(_, _)
SumSizes(files, paths) ==
    IF paths = <<>> THEN 0 ELSE files[Head(paths)].size + SumSizes(files, Tail(paths))

\* Bucket average SST size.
BucketAvg(files, b) ==
    IF b.sstables = <<>> THEN 0 ELSE SumSizes(files, b.sstables) \div Len(b.sstables)

\* Size-tier window [0.5 * avg, 1.5 * avg] of a bucket.
FitsBucket(files, b, size) ==
    2 * size >= BucketAvg(files, b) /\ 2 * size <= 3 * BucketAvg(files, b)

\* BucketMap::insert_to_appropriate_bucket: the first bucket whose window takes
\* the table, else a new bucket; the table is written there as a new SST.
insert_to_appropriate_bucket(bs, files, path, size) ==
    LET fit == {i \in 1..Len(bs) : FitsBucket(files, bs[i], size)}
    IN IF fit = {}
       THEN Append(bs, [id |-> path, sstables |-> <<path>>])
       ELSE LET i == CHOOSE j \in fit : \A m \in fit : j <= m
            IN [bs EXCEPT ![i].sstables = Append(@, path)]

\* StorageEngine::flush_memtable: bucket insert (the SST is written), Bloom
\* filter push, then find_biggest_key()? and the biggest-key index entry.
\* src is the id of the flushed table (0 for the active memtable) and via the
\* caller; the SST keeps both as history.
flush_memtable(d, h, t, src, via) ==
    LET path == d.next_id
        d1 == [d EXCEPT
                 !.buckets = insert_to_appropriate_bucket(@, d.ssts, path, t.size),
                 !.ssts = @ @@ (path :> [entries |-> h[t.index], size |-> t.size,
                                         src |-> src, via |-> via]),
                 !.bloom_filters = Append(@, [path |-> path, keys |-> t.bloom]),
                 !.next_id = @ + 1,
                 !.flushed = @ + 1]
    IN IF HasBiggestKey(h, t)
       THEN [d1 EXCEPT !.biggest_key_index = @ @@ (path :> find_biggest_key(h, t))]
       ELSE [d1 EXCEPT !.ok = FALSE]

\* The loop of flush_all_memtables over the read-only memtables: stops at the
\* first error (the ? operator).
RECURSIVE FlushTables(_, _, _)
FlushTables(d, h, tabs) ==
    IF tabs = <<>> \/ ~d.ok THEN d
    ELSE FlushTables(flush_memtable(d, h, Head(tabs).table, Head(tabs).id,
                                    "flush_all_memtables"),
                     h, Tail(tabs))

\* The SSTs whose biggest key is > key: the filter without its equality.
filter_sstables_by_bigger_key(index, key) ==
    {p \in DOMAIN index : BytesLess(key, index[p])}

\* filter_sstables_by_biggest_key: the SSTs whose biggest key is >= key.
filter_sstables_by_biggest_key(index, key) ==
    {p \in DOMAIN index : BytesLess(key, index[p]) \/ index[p] = key}

\* SparseIndex::get then SSTable::get: the entry of key in the SST file.
SstGet(files, path, key) ==
    IF key \in DOMAIN files[path].entries THEN files[path].entries[key] ELSE NoEntry

---------------------------------------------------------------------------
(* StorageEngine::get *)

Ok(v, ts) == [ok |-> TRUE, value |-> v, ts |-> ts, err |-> "none"]
Err(e) == [ok |-> FALSE, value |-> <<>>, ts |-> 0, err |-> e]

\* offset = 0, most_recent_insert_time = 0, is_deleted = false
NotSeen == Entry(0, 0, FALSE)

\* The update both loops make: a strictly larger created_at replaces.
MoreRecent(acc, e) == IF e # NoEntry /\ e.ts > acc.ts THEN e ELSE acc

\* Step 2: the read-only memtables, in map order.
RECURSIVE ScanMemtables(_, _, _, _)
ScanMemtables(h, tabs, key, acc) ==
    IF tabs = <<>> THEN acc
    ELSE ScanMemtables(h, Tail(tabs), key,
                       MoreRecent(acc, TableGet(h, Head(tabs).table, key)))

\* Step 3: the candidate SSTs, in Bloom-filter list order.
RECURSIVE ScanSsts(_, _, _, _)
ScanSsts(files, bfs, key, acc) ==
    IF bfs = <<>> THEN acc
    ELSE ScanSsts(files, Tail(bfs), key,
                  MoreRecent(acc, SstGet(files, Head(bfs).path, key)))

\* Step 5: read the value from the value log.
ReadValue(log, e) ==
    IF ~VLogHas(log, e.off) THEN Err("KeyNotFoundInValueLogError")
    ELSE IF VLogGet(log, e.off).is_tombstone THEN Err("KeyFoundAsTombstoneInValueLogError")
    ELSE Ok(VLogGet(log, e.off).value, e.ts)

\* BloomFilter::bloom_filters_within_key_range: the filters of the SSTs in
\* range, in the order of the Bloom-filter list.
bloom_filters_within_key_range(bfs, within) ==
    LET InRange(bf) == bf.path \in within
    IN SelectSeq(bfs, InRange)

\* BloomFilter::sstables_within_key_range: the filters that contain the key,
\* in the order given.
sstables_within_key_range(bfs, key) ==
    LET Contains(bf) == BloomContains(bf.keys, key)
    IN SelectSeq(bfs, Contains)

GetFromSsts(key) ==
    LET within == filter_sstables_by_biggest_key(biggest_key_index, key)
        bfs == bloom_filters_within_key_range(bloom_filters, within)
        cands == sstables_within_key_range(bfs, key)
        found == ScanSsts(ssts, cands, key, NotSeen)
    IN IF within = {} THEN Err("KeyNotFoundInAnySSTableError")
       ELSE IF bfs = <<>> THEN Err("KeyNotFoundByAnyBloomFilterError")
       ELSE IF cands = <<>> THEN Err("KeyNotFoundInAnySSTableError")
       ELSE IF found.ts > 0 /\ found.tomb THEN Err("KeyFoundAsTombstoneInSSTableError")
       ELSE IF found.ts > 0 THEN ReadValue(vlog, found)
       ELSE Err("NotFoundInDB")

GetFromReadOnly(key) ==
    LET found == ScanMemtables(heap, read_only_memtables, key, NotSeen)
    IN IF found.ts > 0 /\ found.tomb THEN Err("KeyFoundAsTombstoneInMemtableError")
       ELSE IF found.ts = 0 THEN GetFromSsts(key)
       ELSE ReadValue(vlog, found)

Get(key) ==
    LET e == TableGet(heap, active_memtable, key)
    IN IF e # NoEntry
       THEN IF e.tomb THEN Err("KeyFoundAsTombstoneInMemtableError")
            ELSE IF e.ts > 0 THEN ReadValue(vlog, e)
            ELSE Err("NotFoundInDB")
       ELSE GetFromReadOnly(key)

---------------------------------------------------------------------------
(* Bookkeeping *)

Idle == [stage |-> "idle", op |-> "none", key |-> <<>>, v_offset |-> 0, created_at |-> 0]

\* The index addresses still referenced: Arc reference counts reaching zero free the rest.
Live(act, ro, ch) ==
    {act.index} \cup {ro[i].table.index : i \in 1..Len(ro)}
                \cup {ch[i].table.index : i \in 1..Len(ch)}
Collect(h, act, ro, ch) == [a \in Live(act, ro, ch) |-> h[a]]

\* Arc::new(SkipMap::new()): an address not in use.
NewAddr(h) == CHOOSE a \in 1..(Cardinality(DOMAIN h) + 1) : a \notin DOMAIN h

NeverWritten == [writes |-> 0, puts |-> 0, value |-> <<>>, ts |-> 0, tomb |-> FALSE]

\* A user call returned Ok for a write of key: the history records it. writes
\* counts the acknowledged writes of the key and puts the puts since its last
\* delete (both up to 2); value, ts and tomb are those of the last write.
Acked(key, value, ts, tomb) ==
    hist' = [hist EXCEPT ![key] = [writes |-> Min(@.writes + 1, 2),
                                   puts |-> IF tomb THEN 0 ELSE Min(@.puts + 1, 2),
                                   value |-> value, ts |-> ts, tomb |-> tomb]]


UnchangedDisk == UNCHANGED <<buckets, ssts, bloom_filters, biggest_key_index>>

\* KeyRange::new: no entry; no range_scan was made on it.
NoScan == [start_key |-> <<>>, end_key |-> <<>>, found |-> {}, made |-> FALSE]
NewKeyRange == [ranges |-> [p \in {} |-> <<>>], scan |-> NoScan]

\* The KeyRange object is not a field of the engine: no call of the engine
\* touches it.
UnchangedKeyRange == UNCHANGED key_ranges

---------------------------------------------------------------------------
(* Initial state: StorageEngine::new on an empty directory.                *)
(* with_capacity_and_rate appends TAIL then HEAD to the value log, seeds   *)
(* the active memtable with both and new() starts the background tasks.    *)

InitLog ==
    VLogAppend(VLogAppend(<<>>, TAIL_ENTRY_KEY, <<>>, 1, FALSE),
               HEAD_ENTRY_KEY, <<>>, 1, FALSE)

\* The active memtable and its index after both sentinels are inserted.
SeededMemtable == TableInsert(TableInsert(NewMemtable(1), TAIL_ENTRY_KEY), HEAD_ENTRY_KEY)
\* A seeding that gives each sentinel entry the offset of the other record.
SeededIndexCrossed(log) ==
    IndexInsert(IndexInsert(EmptyIndex, TAIL_ENTRY_KEY,
                            Entry(log[2].off, log[1].created_at, FALSE)),
                HEAD_ENTRY_KEY, Entry(log[1].off, log[2].created_at, FALSE))

SeededIndex(log) ==
    IndexInsert(IndexInsert(EmptyIndex, TAIL_ENTRY_KEY,
                            Entry(log[1].off, log[1].created_at, FALSE)),
                HEAD_ENTRY_KEY, Entry(log[2].off, log[2].created_at, FALSE))

Init ==
    /\ now = 1
    /\ vlog = InitLog
    /\ vlog_tail = InitLog[1].off
    /\ vlog_head = InitLog[2].off
    /\ active_memtable = SeededMemtable
    /\ heap = (1 :> SeededIndex(InitLog))
    /\ read_only_memtables = <<>>
    /\ flush_chan = <<>>
    /\ send_tasks = <<>>
    /\ flusher_attached = TRUE
    /\ buckets = <<>>
    /\ ssts = [p \in {} |-> 0]
    /\ bloom_filters = <<>>
    /\ biggest_key_index = [p \in {} |-> <<>>]
    /\ pc = Idle
    /\ next_id = 1
    /\ flushed = 0
    /\ hist = [k \in AllKeys |-> NeverWritten]
    /\ key_ranges = NewKeyRange

---------------------------------------------------------------------------
(* The clock: Utc::now().timestamp_millis() gives the value of the last    *)
(* reading or a later one.                                                 *)

Clock == now..MaxClock

---------------------------------------------------------------------------
(* StorageEngine::put and StorageEngine::delete.                           *)
(* A call suspends at the value-log append and at the lock acquisitions    *)
(* of the rollover, so it is three steps: the append; the seal of a full   *)
(* memtable; the rest, which ends with the insert and the return.          *)

\* put, lines 164-175: the value-log append.
PutAppend(key, value, created_at) ==
    /\ pc = Idle
    /\ Len(vlog) < MaxLog
    /\ now' = created_at
    /\ vlog' = VLogAppend(vlog, key, value, created_at, FALSE)
    /\ vlog_head' = HeadAfterAppend(vlog)
    /\ pc' = [stage |-> "appended", op |-> "put", key |-> key,
              v_offset |-> VLogEnd(vlog), created_at |-> created_at]
    /\ UNCHANGED <<vlog_tail, active_memtable, heap,
                   read_only_memtables, flush_chan, send_tasks, flusher_attached, next_id,
                   flushed, hist>>
    /\ UnchangedDisk /\ UnchangedKeyRange

\* A delete that appends its tombstone without the get of line 364.
DeleteUnchecked(key, created_at) ==
    /\ pc = Idle
    /\ Len(vlog) < MaxLog
    /\ now' = created_at
    /\ vlog' = VLogAppend(vlog, key, TombstoneValue, created_at, TRUE)
    /\ vlog_head' = HeadAfterAppend(vlog)
    /\ pc' = [stage |-> "appended", op |-> "delete", key |-> key,
              v_offset |-> VLogEnd(vlog), created_at |-> created_at]
    /\ UNCHANGED <<vlog_tail, active_memtable, heap,
                   read_only_memtables, flush_chan, send_tasks, flusher_attached, next_id,
                   flushed, hist>>
    /\ UnchangedDisk /\ UnchangedKeyRange

\* delete, lines 362-375: get first, return its error, else append the tombstone.
DeleteAppend(key, created_at) ==
    /\ pc = Idle
    /\ IF ~Get(key).ok
       THEN /\ created_at = now
            /\ pc' = [stage |-> "failed", op |-> "delete", key |-> key,
                      v_offset |-> 0, created_at |-> 0]
            /\ UNCHANGED <<now, vlog, vlog_head>>
       ELSE /\ Len(vlog) < MaxLog
            /\ now' = created_at
            /\ vlog' = VLogAppend(vlog, key, TombstoneValue, created_at, TRUE)
            /\ vlog_head' = HeadAfterAppend(vlog)
            /\ pc' = [stage |-> "appended", op |-> "delete", key |-> key,
                      v_offset |-> VLogEnd(vlog), created_at |-> created_at]
    /\ UNCHANGED <<vlog_tail, active_memtable, heap,
                   read_only_memtables, flush_chan, send_tasks, flusher_attached, next_id,
                   flushed, hist>>
    /\ UnchangedDisk /\ UnchangedKeyRange

\* The HEAD entry a rollover inserts: put passes false, delete its is_tombstone (true).
HeadEntry(op, created_at) ==
    Entry(MaxOffset(heap[active_memtable.index]), created_at, op = "delete")

\* put, lines 177-197, and delete, lines 378-394: the active memtable is full;
\* HEAD is inserted and the table is marked read-only. Only put resets the
\* value-log head.
Seal(created_at) ==
    /\ pc.stage = "appended"
    /\ now' = created_at
    /\ is_full(active_memtable, Len(HEAD_ENTRY_KEY))
    /\ DOMAIN heap[active_memtable.index] # {}
    /\ vlog_head' = IF pc.op = "put"
                    THEN MaxOffset(heap[active_memtable.index])
                    ELSE vlog_head
    /\ heap' = HeapInsert(heap, active_memtable, HEAD_ENTRY_KEY,
                          HeadEntry(pc.op, created_at))
    /\ active_memtable' = [TableInsert(active_memtable, HEAD_ENTRY_KEY)
                              EXCEPT !.read_only = TRUE]
    /\ pc' = [pc EXCEPT !.stage = "marked"]
    /\ UNCHANGED <<vlog, vlog_tail, read_only_memtables, flush_chan, send_tasks, flusher_attached,
                   next_id, flushed, hist>>
    /\ UnchangedDisk /\ UnchangedKeyRange

\* put, lines 198-201, and delete, lines 395-398: once the write lock of the
\* read-only map is held, a clone of the table (sharing the index) enters it.
InsertReadOnly ==
    /\ pc.stage = "marked"
    /\ read_only_memtables' =
           Append(read_only_memtables, [id |-> next_id, table |-> active_memtable])
    /\ next_id' = next_id + 1
    /\ pc' = [pc EXCEPT !.stage = "sealed"]
    /\ UNCHANGED <<now, vlog, vlog_head, vlog_tail, active_memtable, heap, flush_chan, send_tasks,
                   flusher_attached, flushed, hist>>
    /\ UnchangedDisk /\ UnchangedKeyRange

\* put, lines 204-225, and delete, lines 400-413: the oldest read-only memtable
\* is sent to the flush channel when the map holds max_buffer_write_number or more.
SendsOldest == Len(read_only_memtables) >= MaxBufferWriteNumber

\* put replaces the active memtable after every seal (lines 227-231); delete
\* replaces it inside the branch that sends (lines 414-418).
Replaces == pc.stage = "sealed" /\ (pc.op = "put" \/ SendsOldest)

\* An entry made before its record is appended: it points to the end of the log.
NewEntryAhead == Entry(VLogEnd(vlog), pc.created_at, pc.op = "delete")

\* Entry::new(key, v_offset, created_at, is_tombstone) of put and of delete.
NewEntry == Entry(pc.v_offset, pc.created_at, pc.op = "delete")

\* A rest of the call that sends the oldest read-only memtable itself and
\* so waits while the channel is full.
FinishInline ==
    /\ \/ pc.stage = "sealed"
       \/ pc.stage = "appended" /\ ~is_full(active_memtable, Len(HEAD_ENTRY_KEY))
    /\ pc.stage = "sealed" /\ SendsOldest => Len(flush_chan) < FlushChanCap
    /\ flush_chan' = IF pc.stage = "sealed" /\ SendsOldest
                     THEN Append(flush_chan, read_only_memtables[1])
                     ELSE flush_chan
    /\ LET a == NewAddr(heap)
           table == IF Replaces THEN NewMemtable(a) ELSE active_memtable
           h == IF Replaces THEN heap @@ (a :> EmptyIndex) ELSE heap
       IN /\ active_memtable' = TableInsert(table, pc.key)
          /\ heap' = Collect(HeapInsert(h, table, pc.key, NewEntry), table,
                             read_only_memtables, flush_chan' \o send_tasks)
    /\ Acked(pc.key, IF pc.op = "delete" THEN TombstoneValue
                     ELSE VLogGet(vlog, pc.v_offset).value,
             pc.created_at, pc.op = "delete")
    /\ pc' = Idle
    /\ UNCHANGED <<now, vlog, vlog_head, vlog_tail, read_only_memtables, send_tasks,
                   flusher_attached, next_id, flushed>>
    /\ UnchangedDisk /\ UnchangedKeyRange

\* The rest of put (lines 204-243) and of delete (lines 400-430). The send of
\* the oldest read-only memtable is left to a spawned task (lines 214-223 and
\* 407-413), which holds the table id and an Arc of the table.
Finish ==
    /\ \/ pc.stage = "sealed"
       \/ pc.stage = "appended" /\ ~is_full(active_memtable, Len(HEAD_ENTRY_KEY))
    /\ send_tasks' = IF pc.stage = "sealed" /\ SendsOldest
                     THEN Append(send_tasks, read_only_memtables[1])
                     ELSE send_tasks
    /\ LET a == NewAddr(heap)
           table == IF Replaces THEN NewMemtable(a) ELSE active_memtable
           h == IF Replaces THEN heap @@ (a :> EmptyIndex) ELSE heap
       IN /\ active_memtable' = TableInsert(table, pc.key)
          /\ heap' = Collect(HeapInsert(h, table, pc.key, NewEntry), table,
                             read_only_memtables, flush_chan \o send_tasks')
    /\ Acked(pc.key, IF pc.op = "delete" THEN TombstoneValue
                     ELSE VLogGet(vlog, pc.v_offset).value,
             pc.created_at, pc.op = "delete")
    /\ pc' = Idle
    /\ UNCHANGED <<now, vlog, vlog_head, vlog_tail, read_only_memtables, flush_chan,
                   flusher_attached, next_id, flushed>>
    /\ UnchangedDisk /\ UnchangedKeyRange

\* A spawned task, lines 214-223 and 407-413: it takes the write lock of the
\* sender and sends its message; send waits while the channel is full. The
\* tasks run in any order.
RemoveAt(seq, i) == SubSeq(seq, 1, i - 1) \o SubSeq(seq, i + 1, Len(seq))

SendTask(i) ==
    /\ i \in 1..Len(send_tasks)
    /\ Len(flush_chan) < FlushChanCap
    /\ flush_chan' = Append(flush_chan, send_tasks[i])
    /\ send_tasks' = RemoveAt(send_tasks, i)
    /\ UNCHANGED <<now, vlog, vlog_head, vlog_tail, active_memtable, heap,
                   read_only_memtables, flusher_attached, pc, next_id, flushed, hist>>
    /\ UnchangedDisk /\ UnchangedKeyRange

\* delete, line 364: the error of get is returned (the ? operator).
ReturnErr ==
    /\ pc.stage = "failed"
    /\ pc' = Idle
    /\ UNCHANGED <<now, vlog, vlog_head, vlog_tail, active_memtable, heap,
                   read_only_memtables, flush_chan, send_tasks, flusher_attached, next_id, flushed,
                   hist>>
    /\ UnchangedDisk /\ UnchangedKeyRange

\* The caller drops the future of a suspended call.
Cancel ==
    /\ pc.stage \in {"appended", "marked", "sealed"}
    /\ pc' = Idle
    /\ UNCHANGED <<now, vlog, vlog_head, vlog_tail, active_memtable, heap,
                   read_only_memtables, flush_chan, send_tasks, flusher_attached, next_id,
                   flushed, hist>>
    /\ UnchangedDisk /\ UnchangedKeyRange

---------------------------------------------------------------------------
(* StorageEngine::flush_all_memtables *)

\* A flush of the active memtable alone: the read-only memtables are skipped.
FlushedActive ==
    flush_memtable(Disk, heap, active_memtable, 0, "flush_all_memtables")

\* Lines 809-825: the active memtable (a clone), then every read-only memtable.
FlushedAll ==
    FlushTables(flush_memtable(Disk, heap, active_memtable, 0, "flush_all_memtables"),
                heap, read_only_memtables)

\* The Bloom filters are then sorted by hotness, descending (lines 827-832):
\* every SST is written with hotness 1 and sort_by is stable, so the order stays.
\* Lines 834-836: the active memtable is cleared (its index too, whoever shares
\* it) and the engine takes a new, empty read-only map; the flusher keeps the old.
FlushAll ==
    /\ pc = Idle
    /\ flushed + 1 + Len(read_only_memtables) <= MaxSst
    /\ buckets' = FlushedAll.buckets
    /\ ssts' = FlushedAll.ssts
    /\ bloom_filters' = FlushedAll.bloom_filters
    /\ biggest_key_index' = FlushedAll.biggest_key_index
    /\ next_id' = FlushedAll.next_id
    /\ flushed' = FlushedAll.flushed
    /\ IF FlushedAll.ok
       THEN /\ active_memtable' = TableClear(active_memtable)
            /\ read_only_memtables' = <<>>
            /\ heap' = Collect([heap EXCEPT ![active_memtable.index] = EmptyIndex],
                               active_memtable', <<>>, flush_chan \o send_tasks)
            /\ flusher_attached' = FALSE
       ELSE /\ UNCHANGED <<active_memtable, read_only_memtables, heap, flusher_attached>>
    /\ UNCHANGED <<now, vlog, vlog_head, vlog_tail, flush_chan, send_tasks, pc, hist,
                   key_ranges>>

---------------------------------------------------------------------------
(* The background flusher (flusher.rs is not part of the sources; after    *)
(* spec 4.7): it receives one table at a time, writes it to an SST,        *)
(* registers the SST and then removes the table from its read-only map.    *)

RemoveTable(tabs, id) ==
    LET Other(t) == t.id # id IN SelectSeq(tabs, Other)

FlushDataCollector ==
    /\ flush_chan # <<>>
    /\ flushed < MaxSst
    /\ LET msg == Head(flush_chan)
           d == flush_memtable(Disk, heap, msg.table, msg.id, "flusher")
       IN /\ buckets' = d.buckets
          /\ ssts' = d.ssts
          /\ bloom_filters' = d.bloom_filters
          /\ biggest_key_index' = d.biggest_key_index
          /\ next_id' = d.next_id
          /\ flushed' = d.flushed
          /\ read_only_memtables' = IF d.ok /\ flusher_attached
                                    THEN RemoveTable(read_only_memtables, msg.id)
                                    ELSE read_only_memtables
    /\ flush_chan' = Tail(flush_chan)
    /\ heap' = Collect(heap, active_memtable, read_only_memtables',
                       flush_chan' \o send_tasks)
    /\ UNCHANGED <<now, vlog, vlog_head, vlog_tail, active_memtable, send_tasks,
                   flusher_attached, pc, hist, key_ranges>>

---------------------------------------------------------------------------
(* StorageEngine::run_compaction (the Compactor is not part of the         *)
(* sources; after spec 4.6): every bucket holding at least MinTierSstables *)
(* SSTs is merged into one SST, which takes the place of its inputs.       *)

\* The record a merge keeps for key: the one of largest created_at, of two
\* of the same created_at the one of the newer file.
MergedEntry(files, paths, key) ==
    LET has == {i \in 1..Len(paths) : key \in DOMAIN files[paths[i]].entries}
        At(i) == files[paths[i]].entries[key]
        best == CHOOSE i \in has :
                    \A j \in has : At(j).ts < At(i).ts \/ (At(j).ts = At(i).ts /\ j <= i)
    IN At(best)

\* The tombstone GC horizon at time t.
Expired(e, t) == e.tomb /\ e.ts + TombstoneGrace < t

\* The k-way merge of the SSTs at paths, at time t.
Merged(files, paths, t) ==
    LET keys == UNION {DOMAIN files[paths[i]].entries : i \in 1..Len(paths)}
        kept == {k \in keys : ~Expired(MergedEntry(files, paths, k), t)}
    IN [k \in kept |-> MergedEntry(files, paths, k)]

RECURSIVE SumLengths(_)
SumLengths(keys) ==
    IF keys = {} THEN 0
    ELSE LET k == CHOOSE x \in keys : TRUE
         IN EntryLength(k) + SumLengths(keys \ {k})

\* One bucket merged: the inputs leave the bucket map, the Bloom-filter list,
\* the key-range index and the disk; the merged SST, if it holds a record,
\* is added to all four.
MergeBucket(d, b, t) ==
    LET paths == b.sstables
        gone == {paths[i] : i \in 1..Len(paths)}
        entries == Merged(d.ssts, paths, t)
        size == SumLengths(DOMAIN entries)
        path == d.next_id
        Stays(x) == x.id # b.id
        NotInput(bf) == bf.path \notin gone
        files == [p \in DOMAIN d.ssts \ gone |-> d.ssts[p]]
        d1 == [d EXCEPT
                 !.buckets = SelectSeq(@, Stays),
                 !.ssts = files,
                 !.bloom_filters = SelectSeq(@, NotInput),
                 !.biggest_key_index = [p \in DOMAIN @ \ gone |-> @[p]]]
    IN IF DOMAIN entries = {} THEN d1
       ELSE [d1 EXCEPT
               !.buckets = insert_to_appropriate_bucket(@, files, path, size),
               !.ssts = @ @@ (path :> [entries |-> entries, size |-> size,
                                       src |-> 0, via |-> "run_compaction"]),
               !.bloom_filters = Append(@, [path |-> path,
                                            keys |-> {BloomHash(k) : k \in DOMAIN entries}]),
               !.biggest_key_index = @ @@ (path :> MaxKey(DOMAIN entries)),
               !.next_id = @ + 1]

\* The pass over the buckets that were there when it started, one at a time.
RECURSIVE CompactBuckets(_, _, _)
CompactBuckets(d, bs, t) ==
    IF bs = <<>> THEN d
    ELSE LET i == CHOOSE j \in 1..Len(d.buckets) : d.buckets[j].id = Head(bs).id
         IN CompactBuckets(IF Len(d.buckets[i].sstables) >= MinTierSstables
                           THEN MergeBucket(d, d.buckets[i], t) ELSE d,
                           Tail(bs), t)

RunCompaction(t) ==
    /\ pc = Idle
    /\ \E i \in 1..Len(buckets) : Len(buckets[i].sstables) >= MinTierSstables
    /\ now' = t
    /\ LET d == CompactBuckets(Disk, buckets, t)
       IN /\ buckets' = d.buckets
          /\ ssts' = d.ssts
          /\ bloom_filters' = d.bloom_filters
          /\ biggest_key_index' = d.biggest_key_index
          /\ next_id' = d.next_id
    /\ UNCHANGED <<vlog, vlog_head, vlog_tail, active_memtable, heap,
                   read_only_memtables, flush_chan, send_tasks, flusher_attached, flushed, pc,
                   hist, key_ranges>>

---------------------------------------------------------------------------

(* The user calls, each taken as a whole: the background flusher moves     *)
(* between calls.                                                          *)

\* The values the workload puts: a key gets V1 first and then, in turn, the
\* one that differs from its last acknowledged value, so that a read tells
\* two writes of the key apart.
NewValues(key) == IF hist[key].value = V1 THEN {V2} ELSE {V1}

UserStep ==
    \/ \E key \in UserKeys : \E value \in NewValues(key), t \in Clock :
          PutAppend(key, value, t)
    \/ \E key \in UserKeys, t \in Clock : DeleteAppend(key, t)
    \/ \E t \in Clock : Seal(t)
    \/ InsertReadOnly
    \/ Finish
    \/ ReturnErr
    \/ FlushAll

Next ==
    \/ UserStep
    \/ pc = Idle /\ \E i \in 1..Len(send_tasks) : SendTask(i)
    \/ pc = Idle /\ FlushDataCollector

Spec == Init /\ [][Next]_vars

(* The same with compaction passes between the calls. *)

NextCompaction ==
    \/ Next
    \/ \E t \in Clock : RunCompaction(t)

SpecCompaction == Init /\ [][NextCompaction]_vars

(* The calls step by step: the flusher also moves while a call is          *)
(* suspended, and the caller may drop a suspended call.                    *)

NextSteps ==
    \/ UserStep
    \/ \E i \in 1..Len(send_tasks) : SendTask(i)
    \/ FlushDataCollector
    \/ Cancel

SpecSteps == Init /\ [][NextSteps]_vars

---------------------------------------------------------------------------
(* The life cycle of an engine: update, clear, and opening the directory   *)
(* of a dropped engine again. The model follows an engine up to the return *)
(* of clear and of the second open.                                        *)

\* An update that first looks the key up, as delete does.
UpdateChecked(key, value, created_at) ==
    /\ Get(key).ok
    /\ PutAppend(key, value, created_at)

\* StorageEngine::update: self.put(key, value).await
Update(key, value, created_at) == PutAppend(key, value, created_at)

\* ValueLog::recover(head_offset): the records from head_offset on, in file order.
RecoveredEntries(log, head_offset) ==
    LET From(r) == r.off >= head_offset IN SelectSeq(log, From)

\* A replay that inserts every record, the one at head_offset too.
RECURSIVE recover_memtable_no_skip(_, _, _, _)
recover_memtable_no_skip(entries, most_recent_offset, head_offset, st) ==
    IF entries = <<>> THEN st
    ELSE LET e == Head(entries)
             entry == Entry(most_recent_offset, e.created_at, e.is_tombstone)
             a == NewAddr(st.heap)
             st1 == IF is_full(st.active, Len(e.key))
                    THEN [active |-> NewMemtable(a),
                          heap |-> st.heap @@ (a :> EmptyIndex),
                          ro |-> Append(st.ro, [id |-> st.next_id,
                                                table |-> [st.active EXCEPT
                                                             !.read_only = TRUE]]),
                          next_id |-> st.next_id + 1]
                    ELSE st
             st2 == [st1 EXCEPT !.active = TableInsert(@, e.key),
                                !.heap = HeapInsert(@, st1.active, e.key, entry)]
         IN recover_memtable_no_skip(Tail(entries),
                             most_recent_offset + RecordSize(e.key, e.value),
                             head_offset,
                             st2)

\* recover_memtable, lines 765-806: the replay of the value log. The record at
\* head_offset is skipped; a full active memtable is marked read-only and a
\* clone enters the read-only map before the record is inserted into a new one.
RECURSIVE recover_memtable(_, _, _, _)
recover_memtable(entries, most_recent_offset, head_offset, st) ==
    IF entries = <<>> THEN st
    ELSE LET e == Head(entries)
             entry == Entry(most_recent_offset, e.created_at, e.is_tombstone)
             a == NewAddr(st.heap)
             st1 == IF is_full(st.active, Len(e.key))
                    THEN [active |-> NewMemtable(a),
                          heap |-> st.heap @@ (a :> EmptyIndex),
                          ro |-> Append(st.ro, [id |-> st.next_id,
                                                table |-> [st.active EXCEPT
                                                             !.read_only = TRUE]]),
                          next_id |-> st.next_id + 1]
                    ELSE st
             st2 == [st1 EXCEPT !.active = TableInsert(@, e.key),
                                !.heap = HeapInsert(@, st1.active, e.key, entry)]
         IN recover_memtable(Tail(entries),
                             most_recent_offset + RecordSize(e.key, e.value),
                             head_offset,
                             IF most_recent_offset # head_offset THEN st2 ELSE st)

\* recover_memtable, lines 759-766, called with the head offset the SSTs gave:
\* 0 when the buckets directory holds no bucket.
Recovered ==
    recover_memtable(RecoveredEntries(vlog, 0), 0, 0,
                     [active |-> NewMemtable(1), heap |-> (1 :> EmptyIndex),
                      ro |-> <<>>, next_id |-> 1])

Outcome(stage) == [Idle EXCEPT !.stage = stage, !.op = "open"]

\* The engine is dropped between two calls and StorageEngine::new opens its
\* directory again: with_capacity_and_rate, lines 546-746, on a value log
\* that is not empty.
\* For a bucket directory the loop of lines 580-589 reads at most one file of
\* the SST directory, so line 598 returns InvalidSSTableDirectoryError.
\* With no bucket the value log is replayed from offset 0; line 702 unwraps
\* the first read-only memtable of the replay and panics when there is none.
Reopen ==
    /\ pc = Idle
    /\ IF buckets # <<>>
       THEN /\ pc' = Outcome("open_failed")
            /\ UNCHANGED <<vlog_head, vlog_tail, active_memtable, heap,
                           read_only_memtables, flush_chan, send_tasks, flusher_attached,
                           bloom_filters, biggest_key_index, next_id>>
       ELSE IF Recovered.ro = <<>>
       THEN /\ pc' = Outcome("panicked")
            /\ UNCHANGED <<vlog_head, vlog_tail, active_memtable, heap,
                           read_only_memtables, flush_chan, send_tasks, flusher_attached,
                           bloom_filters, biggest_key_index, next_id>>
       ELSE /\ pc' = Outcome("opened")
            /\ vlog_head' = 0
            /\ vlog_tail' = 0
            /\ active_memtable' = Recovered.active
            /\ heap' = Collect(Recovered.heap, Recovered.active, Recovered.ro, <<>>)
            /\ read_only_memtables' = Recovered.ro
            /\ flush_chan' = <<>>
            /\ send_tasks' = <<>>
            /\ flusher_attached' = TRUE
            /\ bloom_filters' = <<>>
            /\ biggest_key_index' = [p \in {} |-> <<>>]
            /\ next_id' = Recovered.next_id
    /\ UNCHANGED <<now, vlog, buckets, ssts, flushed, hist, key_ranges>>

\* A clear that leaves buckets, Bloom filters and key index as they are.
ClearMemtables(created_at) ==
    /\ pc = Idle
    /\ now' = created_at
    /\ pc' = [Idle EXCEPT !.stage = "cleared", !.op = "clear"]
    /\ active_memtable' = TableClear(active_memtable)
    /\ heap' = Collect([heap EXCEPT ![active_memtable.index] = EmptyIndex],
                       active_memtable', read_only_memtables, flush_chan \o send_tasks)
    /\ UNCHANGED <<vlog, vlog_head, vlog_tail, read_only_memtables, flush_chan, send_tasks,
                   flusher_attached, next_id, flushed, hist>>
    /\ UnchangedDisk /\ UnchangedKeyRange

\* StorageEngine::clear, lines 437-451: the active memtable, the buckets and
\* the value log are cleared and with_capacity_and_rate, on the value log now
\* empty, builds the engine that is returned (lines 481-544); its background
\* tasks are not started.
Clear(created_at) ==
    /\ pc = Idle
    /\ now' = created_at
    /\ pc' = [Idle EXCEPT !.stage = "cleared", !.op = "clear"]
    /\ vlog' = VLogAppend(VLogAppend(<<>>, TAIL_ENTRY_KEY, <<>>, created_at, FALSE),
                          HEAD_ENTRY_KEY, <<>>, created_at, FALSE)
    /\ vlog_tail' = vlog'[1].off
    /\ vlog_head' = vlog'[2].off
    /\ active_memtable' = SeededMemtable
    /\ heap' = (1 :> SeededIndex(vlog'))
    /\ read_only_memtables' = <<>>
    /\ flush_chan' = <<>>
    /\ send_tasks' = <<>>
    /\ flusher_attached' = FALSE
    /\ buckets' = <<>>
    /\ ssts' = [p \in {} |-> 0]
    /\ bloom_filters' = <<>>
    /\ biggest_key_index' = [p \in {} |-> <<>>]
    /\ next_id' = 1
    /\ UNCHANGED <<flushed, hist, key_ranges>>

(* The calls of Next with update and clear. *)

NextClear ==
    \/ Next
    \/ \E key \in UserKeys : \E value \in NewValues(key), t \in Clock :
          Update(key, value, t)
    \/ \E t \in Clock : Clear(t)

SpecClear == Init /\ [][NextClear]_vars

(* The calls of Next, puts of the empty key and of a sentinel key, and the *)
(* second open.                                                            *)

NextReopen ==
    \/ Next
    \/ \E key \in AllKeys \ UserKeys : \E value \in NewValues(key), t \in Clock :
          PutAppend(key, value, t)
    \/ Reopen

SpecReopen == Init /\ [][NextReopen]_vars

---------------------------------------------------------------------------
(* An engine whose background tasks were not started                       *)
(* (new_with_custom_config): the calls and the spawned send tasks, nothing *)
(* receives from the flush channel. A call that is not dropped runs to its *)
(* return; the send tasks are under no such assumption.                    *)

NextWriter ==
    \/ \E key \in UserKeys : \E value \in NewValues(key), t \in Clock :
          PutAppend(key, value, t)
    \/ \E key \in UserKeys, t \in Clock : DeleteAppend(key, t)
    \/ \E t \in Clock : Seal(t)
    \/ InsertReadOnly
    \/ Finish
    \/ ReturnErr
    \/ \E i \in 1..Len(send_tasks) : SendTask(i)

FairWriter ==
    /\ WF_vars(\E t \in Clock : Seal(t))
    /\ WF_vars(InsertReadOnly)
    /\ WF_vars(Finish)
    /\ WF_vars(ReturnErr)

SpecWriter == Init /\ [][NextWriter]_vars /\ FairWriter

\* The same engine, written with keys of every length, dropped between two
\* calls and opened again: no SST is ever written, so the second open replays
\* the value log.
NextReplay ==
    \/ NextWriter
    \/ \E key \in AllKeys \ UserKeys : \E value \in NewValues(key), t \in Clock :
          PutAppend(key, value, t)
    \/ Reopen

SpecReplay == Init /\ [][NextReplay]_vars

(* The engine of new, its background tasks scheduled fairly: a send task   *)
(* that can send does, and the flusher takes a message that is there.      *)

FairTasks ==
    /\ WF_vars(pc = Idle /\ \E i \in 1..Len(send_tasks) : SendTask(i))
    /\ WF_vars(pc = Idle /\ FlushDataCollector)

SpecFair == Init /\ [][Next]_vars /\ FairWriter /\ FairTasks

---------------------------------------------------------------------------
(* A value-log append that fails: put, lines 172-175, and delete, lines     *)
(* 372-375, return the error of append (the ? operator).                   *)

\* A failing append that is noticed only after the rollover was made.
AppendFailsLate(op, key) ==
    /\ pc = Idle
    /\ op = "delete" => Get(key).ok
    /\ pc' = [stage |-> "failed", op |-> op, key |-> key, v_offset |-> 0,
              created_at |-> 0]
    /\ read_only_memtables' =
           IF is_full(active_memtable, Len(HEAD_ENTRY_KEY))
           THEN Append(read_only_memtables, [id |-> next_id, table |-> active_memtable])
           ELSE read_only_memtables
    /\ next_id' = next_id + 1
    /\ UNCHANGED <<now, vlog, vlog_head, vlog_tail, active_memtable, heap, flush_chan,
                   send_tasks, flusher_attached, flushed, hist>>
    /\ UnchangedDisk /\ UnchangedKeyRange

AppendFails(op, key) ==
    /\ pc = Idle
    /\ op = "delete" => Get(key).ok
    /\ pc' = [stage |-> "failed", op |-> op, key |-> key, v_offset |-> 0,
              created_at |-> 0]
    /\ UNCHANGED <<now, vlog, vlog_head, vlog_tail, active_memtable, heap,
                   read_only_memtables, flush_chan, send_tasks, flusher_attached,
                   next_id, flushed, hist>>
    /\ UnchangedDisk /\ UnchangedKeyRange

NextIo ==
    \/ Next
    \/ \E op \in {"put", "delete"}, key \in UserKeys : AppendFails(op, key)

SpecIo == Init /\ [][NextIo]_vars

---------------------------------------------------------------------------
(* The memtable as an object of its own (src/memtable/inmemory.rs): the    *)
(* calls of insert, update, delete and clear on one InMemoryTable, here    *)
(* the table and index of active_memtable. pc records the last call and    *)
(* whether it returned Ok ("returned") or Err ("failed"). A caller inserts *)
(* while the size counter is below the capacity.                           *)

\* The value offsets an entry may carry: those of the records in the log.
EntryOffsets == {InitLog[i].off : i \in DOMAIN InitLog}

Returned(op, key) == [Idle EXCEPT !.stage = "returned", !.op = op, !.key = key]
Failed(op, key) == [Idle EXCEPT !.stage = "failed", !.op = op, !.key = key]

UnchangedEngine ==
    UNCHANGED <<vlog, vlog_head, vlog_tail, read_only_memtables, flush_chan, send_tasks,
                flusher_attached, buckets, ssts, bloom_filters, biggest_key_index,
                next_id, flushed, hist, key_ranges>>

\* InMemoryTable::insert, lines 110-134: always Ok(()).
MemtableInsert(key, val_offset, created_at, is_tombstone) ==
    /\ active_memtable.size < Capacity
    /\ active_memtable' = TableInsert(active_memtable, key)
    /\ heap' = HeapInsert(heap, active_memtable, key,
                          Entry(val_offset, created_at, is_tombstone))
    /\ pc' = Returned("insert", key)
    /\ UNCHANGED now
    /\ UnchangedEngine

\* InMemoryTable::update, lines 145-155: Err(KeyNotFoundInMemTable) when the
\* Bloom filter rejects the key, else the index entry is written; size and
\* Bloom filter stay.
MemtableUpdate(key, val_offset, created_at, is_tombstone) ==
    /\ IF BloomContains(active_memtable.bloom, key)
       THEN /\ heap' = HeapInsert(heap, active_memtable, key,
                                  Entry(val_offset, created_at, is_tombstone))
            /\ pc' = Returned("update", key)
       ELSE /\ heap' = heap
            /\ pc' = Failed("update", key)
    /\ UNCHANGED <<now, active_memtable>>
    /\ UnchangedEngine

\* InMemoryTable::delete, lines 171-186: Err(KeyNotFoundInMemTable) when the
\* Bloom filter rejects the key, else the index entry is written with the
\* offset and the flag of the entry passed and the time of the call; size and
\* Bloom filter stay.
MemtableDelete(key, val_offset, is_tombstone, utc_now) ==
    /\ now' = utc_now
    /\ IF BloomContains(active_memtable.bloom, key)
       THEN /\ heap' = HeapInsert(heap, active_memtable, key,
                                  Entry(val_offset, utc_now, is_tombstone))
            /\ pc' = Returned("delete", key)
       ELSE /\ heap' = heap
            /\ pc' = Failed("delete", key)
    /\ UNCHANGED active_memtable
    /\ UnchangedEngine

\* InMemoryTable::clear, lines 226-234: the index is emptied, the size counter
\* is 0 and the Bloom filter is a new one.
MemtableClear ==
    /\ active_memtable' = TableClear(active_memtable)
    /\ heap' = [heap EXCEPT ![active_memtable.index] = EmptyIndex]
    /\ pc' = Returned("clear", <<>>)
    /\ UNCHANGED now
    /\ UnchangedEngine

\* The keys of the calls: two keys of different hash and a third key whose
\* hash is that of the first, so the Bloom filter answers yes for one of
\* them as soon as the other was set.
MemtableKeys == UserKeys \cup {LongKey}

\* Entries are built by the caller with the time of the call.
NextMemtable ==
    \/ \E key \in MemtableKeys, off \in EntryOffsets, tomb \in BOOLEAN :
          MemtableInsert(key, off, now, tomb)
    \/ \E key \in MemtableKeys, off \in EntryOffsets, tomb \in BOOLEAN :
          MemtableUpdate(key, off, now, tomb)
    \/ \E key \in MemtableKeys, off \in EntryOffsets, tomb \in BOOLEAN, t \in Clock :
          MemtableDelete(key, off, tomb, t)
    \/ MemtableClear

SpecMemtable == Init /\ [][NextMemtable]_vars

---------------------------------------------------------------------------
(* The KeyRange object (src/key_range/range.rs): the calls of set, remove  *)
(* and range_scan on one KeyRange. The Table of a Range is identified with *)
(* its path. range_scan returns references into the map, so the result of  *)
(* a scan does not outlive the next set or remove.                         *)

KeyRangePaths == 1..2
\* "" < "a" < "aaaaa" < "b"
RangeKeys == UserKeys \cup {<<>>, LongKey}

\* Range::new
Range(smallest_key, biggest_key, sst) ==
    [smallest_key |-> smallest_key, biggest_key |-> biggest_key, sst |-> sst]

\* KeyRange::set, lines 36-40: HashMap::insert, insert or replace.
KeyRangeSet(sst_path, smallest_key, biggest_key) ==
    /\ key_ranges' =
           [ranges |-> [p \in DOMAIN key_ranges.ranges \cup {sst_path} |->
                           IF p = sst_path THEN Range(smallest_key, biggest_key, sst_path)
                           ELSE key_ranges.ranges[p]],
            scan |-> NoScan]
    /\ UNCHANGED <<now, vlog, vlog_head, vlog_tail, active_memtable, heap,
                   read_only_memtables, flush_chan, send_tasks, flusher_attached,
                   next_id, flushed, pc, hist>>
    /\ UnchangedDisk

\* KeyRange::remove, lines 42-44.
KeyRangeRemove(sst_path) ==
    /\ sst_path \in DOMAIN key_ranges.ranges
    /\ key_ranges' =
           [ranges |-> [p \in DOMAIN key_ranges.ranges \ {sst_path} |->
                           key_ranges.ranges[p]],
            scan |-> NoScan]
    /\ UNCHANGED <<now, vlog, vlog_head, vlog_tail, active_memtable, heap,
                   read_only_memtables, flush_chan, send_tasks, flusher_attached,
                   next_id, flushed, pc, hist>>
    /\ UnchangedDisk

\* KeyRange::range_scan, lines 59-73: the filter keeps a range when its
\* smallest key is <= start_key or its biggest key is >= end_key.
range_scan(ranges, start_key, end_key) ==
    {p \in DOMAIN ranges :
        \/ BytesLess(ranges[p].smallest_key, start_key)
        \/ ranges[p].smallest_key = start_key
        \/ BytesLess(end_key, ranges[p].biggest_key)
        \/ ranges[p].biggest_key = end_key}

RangeScan(start_key, end_key) ==
    /\ key_ranges' = [key_ranges EXCEPT
                        !.scan = [start_key |-> start_key, end_key |-> end_key,
                                  found |-> range_scan(key_ranges.ranges,
                                                       start_key, end_key),
                                  made |-> TRUE]]
    /\ UNCHANGED <<now, vlog, vlog_head, vlog_tail, active_memtable, heap,
                   read_only_memtables, flush_chan, send_tasks, flusher_attached,
                   next_id, flushed, pc, hist>>
    /\ UnchangedDisk

\* An envelope has smallest_key <= biggest_key and a scan start_key <= end_key.
NextKeyRange ==
    \/ \E p \in KeyRangePaths, lo, hi \in RangeKeys :
          BytesLeq(lo, hi) /\ KeyRangeSet(p, lo, hi)
    \/ \E p \in KeyRangePaths : KeyRangeRemove(p)
    \/ \E lo, hi \in RangeKeys : BytesLeq(lo, hi) /\ RangeScan(lo, hi)

SpecKeyRange == Init /\ [][NextKeyRange]_vars

TypeOk ==
    /\ DOMAIN heap = Live(active_memtable, read_only_memtables, flush_chan \o send_tasks)
    /\ Len(flush_chan) <= FlushChanCap
    /\ pc.stage \in {"idle", "appended", "marked", "sealed", "failed",
                     "opened", "open_failed", "panicked", "cleared",
                     "returned"}

---------------------------------------------------------------------------
(* Reads of what was written *)

OtherKey(k) == CHOOSE o \in UserKeys : o # k

\* The read-only memtables hold no entry of key k.
NotInReadOnly(k) ==
    \A i \in 1..Len(read_only_memtables) :
        k \notin DOMAIN heap[read_only_memtables[i].table.index]

\* No memtable holds an entry of key k.
NotInMemtables(k) == k \notin DOMAIN heap[active_memtable.index] /\ NotInReadOnly(k)

\* C1: a key written exactly once by put(K, v) at ts, and neither deleted nor
\* overwritten since, is read by get(K) as exactly (v, ts), whatever calls
\* on other keys, rollovers and flush_all_memtables calls happened.
C1_SinglePutIsRead ==
    \A k \in UserKeys :
        hist[k].writes = 1 /\ hist[k].puts = 1
            => Get(k) = Ok(hist[k].value, hist[k].ts)

\* The key written once has gone to an SST through a rollover and a flush,
\* and the other key was written twice since.
C1_Witness ==
    \E k \in UserKeys :
        /\ hist[k].writes = 1 /\ hist[k].puts = 1
        /\ hist[OtherKey(k)].writes = 2
        /\ NotInMemtables(k)
        /\ \E p \in DOMAIN ssts : k \in DOMAIN ssts[p].entries /\ ssts[p].src # 0
        /\ Get(k).ok

\* C2: per-key read-your-writes: once put(K, v1) and then put(K, v2) were
\* acknowledged, get(K) returns v2 and never v1, wherever the two records
\* live and also when both carry the same created_at.
C2_ReadYourWrites ==
    \A k \in UserKeys :
        hist[k].puts = 2 => Get(k).ok /\ Get(k).value = hist[k].value

\* The key's tombstone is held in the active or in a read-only memtable.
TombstoneInMemtables(k) ==
    LET Holds(a) == k \in DOMAIN heap[a] /\ heap[a][k].tomb
    IN \/ Holds(active_memtable.index)
       \/ \E i \in 1..Len(read_only_memtables) :
              Holds(read_only_memtables[i].table.index)

\* C3: after put(K, v) and a successful delete(K) with no later put(K),
\* get(K) is KeyFoundAsTombstoneInMemtableError for as long as a memtable
\* holds the tombstone.
C3_TombstoneInMemtableHides ==
    \A k \in UserKeys :
        hist[k].tomb /\ TombstoneInMemtables(k)
            => Get(k) = Err("KeyFoundAsTombstoneInMemtableError")

\* The memtables as flush_all_memtables leaves them: all empty.
MemtablesFlushed ==
    heap[active_memtable.index] = EmptyIndex /\ read_only_memtables = <<>>

\* The key's tombstone is in an SST written by flush_all_memtables.
TombstoneFlushed(k) ==
    \E p \in DOMAIN ssts :
        /\ ssts[p].via = "flush_all_memtables"
        /\ k \in DOMAIN ssts[p].entries
        /\ ssts[p].entries[k].tomb

\* C4: after put(K, v), a successful delete(K) and then flush_all_memtables,
\* get(K) is KeyFoundAsTombstoneInSSTableError: the flushed tombstone hides
\* every older record of K.
C4_TombstoneInSstHides ==
    \A k \in UserKeys :
        hist[k].tomb /\ MemtablesFlushed /\ TombstoneFlushed(k)
            => Get(k) = Err("KeyFoundAsTombstoneInSSTableError")

---------------------------------------------------------------------------
(* The value log and the memtables *)

\* Every entry of the index at address a refers to an appended record, the
\* entry of a user key to a record of that key.
RefersToRecords(a) ==
    \A k \in DOMAIN heap[a] :
        /\ VLogHas(vlog, heap[a][k].off)
        /\ k \in UserKeys => VLogGet(vlog, heap[a][k].off).key = k

\* C7: in every reachable state, those of an in-flight or a cancelled put or
\* delete included, every entry of the active memtable and of the read-only
\* memtables refers to a record already appended to the value log.
C7_EntriesReferToAppendedRecords ==
    /\ RefersToRecords(active_memtable.index)
    /\ \A i \in 1..Len(read_only_memtables) :
           RefersToRecords(read_only_memtables[i].table.index)

\* A put was cancelled after its append (its record is in the log and the
\* key was never acknowledged), and a later write went into the memtable
\* while another one is in flight.
C7_Witness ==
    /\ pc.stage = "appended"
    /\ \E k \in UserKeys :
           /\ hist[k] = NeverWritten
           /\ k # pc.key
           /\ \E i \in 1..Len(vlog) : vlog[i].key = k
    /\ \E k \in UserKeys : k \in DOMAIN heap[active_memtable.index]

\* What a failing delete leaves alone.
DeleteLeaves == UNCHANGED <<vlog, vlog_head, active_memtable, heap, read_only_memtables,
                            flush_chan, send_tasks, hist>>

\* C8: delete(K) performs get(K) first; when that get fails, delete returns
\* the error and leaves the value log, the active memtable and the read-only
\* memtables as they were.
C8_FailedDeleteChangesNothing ==
    [][/\ (pc = Idle /\ pc'.op = "delete" /\ ~Get(pc'.key).ok)
            => pc'.stage = "failed" /\ DeleteLeaves
       /\ pc.stage = "failed" => pc' = Idle /\ DeleteLeaves]_vars

\* A delete of a key that is already a tombstone in an SST has failed.
C8_Witness ==
    /\ pc.stage = "failed"
    /\ hist[pc.key].tomb
    /\ Get(pc.key) = Err("KeyFoundAsTombstoneInSSTableError")

\* C9: tombstones are always writable: delete(K) of a key that was never
\* written succeeds (its tombstone is appended and inserted).
C9_DeleteOfUnwrittenKeySucceeds ==
    \A k \in UserKeys :
        pc.op = "delete" /\ pc.key = k /\ hist[k].writes = 0
            => pc.stage \in {"appended", "marked", "sealed"}

\* The SSTs written from the table of id.
SstsOf(id) == {p \in DOMAIN ssts : ssts[p].src = id}

\* Every read-only memtable that flush_all_memtables flushed has one SST.
OneSstEach ==
    \A p \in DOMAIN ssts :
        ssts[p].via = "flush_all_memtables" /\ ssts[p].src # 0
            => Cardinality(SstsOf(ssts[p].src)) = 1

\* C10: after flush_all_memtables returns Ok the active memtable is empty,
\* the read-only map is empty, and every memtable that was read-only when the
\* call started has exactly one SST, also when the flusher still holds a
\* queued copy of one of them.
C10_FlushAllLeavesOneSstEach ==
    [][/\ (pc = Idle /\ pc' = Idle /\ flush_chan' = flush_chan /\ FlushedAll.ok)
            => MemtablesFlushed'
       /\ OneSstEach']_vars

---------------------------------------------------------------------------
(* Compaction *)

\* A step of run_compaction: the only one that changes the SSTs without
\* writing one from a memtable.
CompactionStep == ssts' # ssts /\ flushed' = flushed

\* C5: a deleted key is never resurrected by compaction: for a key whose
\* last write is a tombstone, a get that failed before a run_compaction
\* pass fails after it too, also when older records of the key live in the
\* SSTs of a bucket other than the merged one.
C5_CompactionNeverResurrects ==
    [][CompactionStep =>
          \A k \in UserKeys : hist[k].tomb /\ ~Get(k).ok => ~Get(k)'.ok]_vars

\* The SSTs that hold a record of key k.
SstsWith(files, k) == {p \in DOMAIN files : k \in DOMAIN files[p].entries}

\* put(K, v1); flush; put(K, v2); flush: both records of K are in SSTs
\* written from the active memtable by flush_all_memtables.
PutFlushPutFlush(k) ==
    /\ hist[k].puts = 2
    /\ MemtablesFlushed
    /\ Cardinality(SstsWith(ssts, k)) = 2
    /\ \A p \in SstsWith(ssts, k) :
           ssts[p].via = "flush_all_memtables" /\ ssts[p].src = 0

\* The SSTs hold one record of k, that of its last write.
OneLastRecord(files, k) ==
    /\ Cardinality(SstsWith(files, k)) = 1
    /\ \A p \in SstsWith(files, k) :
           /\ files[p].entries[k].ts = hist[k].ts
           /\ VLogGet(vlog, files[p].entries[k].off).value = hist[k].value

\* C6: run_compaction preserves the answer of get for every live key, and
\* after put(K, v1); flush; put(K, v2); flush; run_compaction exactly one
\* record of K remains in the SSTs, the v2 record.
C6_CompactionPreservesLiveKeys ==
    [][CompactionStep =>
          \A k \in UserKeys :
              /\ (~hist[k].tomb /\ Get(k) = Ok(hist[k].value, hist[k].ts))
                     => Get(k)' = Get(k)
              /\ PutFlushPutFlush(k) => OneLastRecord(ssts', k)]_vars

---------------------------------------------------------------------------
(* Invariants of the on-disk indexes *)

\* The places of the bucket map that hold SST path p.
BucketPlaces(p) ==
    {<<i, j>> \in (1..Len(buckets)) \X (1..MaxSst + MaxSst) :
         j <= Len(buckets[i].sstables) /\ buckets[i].sstables[j] = p}

\* The places of the Bloom-filter list whose filter belongs to SST path p.
BloomPlaces(p) == {i \in 1..Len(bloom_filters) : bloom_filters[i].path = p}

\* C11: after any sequence of flushes (one that returns an error part-way
\* included) and compactions, every SST path is held by exactly one bucket,
\* has exactly one key-range index entry and exactly one Bloom filter.
C11_EachSstIndexedOnce ==
    \A p \in DOMAIN ssts :
        /\ Cardinality(BucketPlaces(p)) = 1
        /\ p \in DOMAIN biggest_key_index
        /\ Cardinality(BloomPlaces(p)) = 1

\* Entry e, indexed under key k, points to the value-log record of k written at e.ts.
PointsToOwnRecord(k, e) ==
    /\ VLogHas(vlog, e.off)
    /\ VLogGet(vlog, e.off).key = k
    /\ VLogGet(vlog, e.off).created_at = e.ts

OwnRecords(index) == \A k \in DOMAIN index : PointsToOwnRecord(k, index[k])

\* C12: for every entry held in the active memtable, a read-only memtable
\* or an SST, the HEAD and TAIL sentinel entries included, the value-log
\* record at the entry's offset has the entry's key and created_at.
C12_EntriesPointToOwnRecords ==
    /\ OwnRecords(heap[active_memtable.index])
    /\ \A i \in 1..Len(read_only_memtables) :
           OwnRecords(heap[read_only_memtables[i].table.index])
    /\ \A p \in DOMAIN ssts : OwnRecords(ssts[p].entries)

---------------------------------------------------------------------------
(* Opening an engine *)

\* The second open of the directory has returned (or has panicked).
OpenReturned == pc.op = "open"

\* Every acknowledged write so far is a put, and there is one.
OnlyPuts ==
    /\ \A k \in AllKeys : hist[k].puts = hist[k].writes
    /\ \E k \in AllKeys : hist[k].writes >= 1

\* No SST was written.
NothingFlushed == buckets = <<>> /\ DOMAIN ssts = {}

\* C13: after one or more acknowledged puts and no flush (no SST on disk),
\* dropping the engine and opening its directory again succeeds, and get
\* returns the written value of every key put.
C13_ReopenWithoutFlushRecovers ==
    OpenReturned /\ OnlyPuts /\ NothingFlushed
        => /\ pc.stage = "opened"
           /\ \A k \in AllKeys :
                  hist[k].writes >= 1 => Get(k).ok /\ Get(k).value = hist[k].value

\* C14: closing the engine and opening it again leaves the answer of get
\* unchanged for every key, also for keys whose last record is in an SST.
C14_ReopenLeavesGetUnchanged ==
    [][pc = Idle /\ pc'.op = "open"
          => pc'.stage = "opened" /\ \A k \in AllKeys : Get(k)' = Get(k)]_vars

\* C15: opening an engine on a value log that is not empty returns a working
\* engine or a typed error; it never panics, also not when the replay of the
\* value log seals no read-only memtable.
C15_OpenNeverPanics ==
    OpenReturned => pc.stage \in {"opened", "open_failed"}

\* The state with_capacity_and_rate builds on an empty value log.
FreshEngine ==
    /\ Len(vlog) = 2
    /\ vlog[1].key = TAIL_ENTRY_KEY
    /\ vlog[2].key = HEAD_ENTRY_KEY
    /\ DOMAIN heap[active_memtable.index] = {TAIL_ENTRY_KEY, HEAD_ENTRY_KEY}
    /\ heap[active_memtable.index][TAIL_ENTRY_KEY].off = vlog[1].off
    /\ heap[active_memtable.index][HEAD_ENTRY_KEY].off = vlog[2].off
    /\ vlog_tail = vlog[1].off
    /\ vlog_head = vlog[2].off
    /\ vlog_tail <= vlog_head
    /\ read_only_memtables = <<>>
    /\ buckets = <<>>
    /\ bloom_filters = <<>>
    /\ DOMAIN biggest_key_index = {}

\* C16: an engine opened on an empty or missing value log (the first open,
\* and the open that ends clear) has a value log of two records, TAIL then
\* HEAD, an active memtable holding the two sentinel entries at the offsets
\* of those records, tail and head pointers at those offsets (tail <= head),
\* and an empty read-only map, bucket map, Bloom-filter list and key index.
C16_OpenOnEmptyLogIsFresh ==
    FreshEngine /\ [][pc'.stage = "cleared" => FreshEngine']_vars

\* An engine that was written to and flushed was cleared.
C16_Witness ==
    /\ pc.stage = "cleared"
    /\ flushed >= 1
    /\ \A k \in UserKeys : hist[k].writes >= 1

\* get fails with one of its not-found errors.
NotFound(r) == r.err \in {"KeyNotFoundInAnySSTableError", "NotFoundInDB",
                          "KeyNotFoundByAnyBloomFilterError"}

\* C17: clear returns an engine in the freshly initialized state: get of
\* every key written before fails with a not-found error, the read-only
\* map, bucket map, Bloom-filter list and key index are empty and the
\* active memtable holds only the sentinel entries.
C17_ClearReturnsFreshEngine ==
    pc.stage = "cleared"
        => /\ \A k \in UserKeys : hist[k].writes >= 1 => NotFound(Get(k))
           /\ read_only_memtables = <<>>
           /\ buckets = <<>>
           /\ bloom_filters = <<>>
           /\ DOMAIN biggest_key_index = {}
           /\ DOMAIN heap[active_memtable.index] = {TAIL_ENTRY_KEY, HEAD_ENTRY_KEY}

\* A key that was put and read back from an SST is gone after the clear.
C17_Witness ==
    /\ pc.stage = "cleared"
    /\ \E k \in UserKeys :
           /\ hist[k].puts >= 1
           /\ Get(k) = Err("KeyNotFoundInAnySSTableError")
    /\ flushed >= 2

---------------------------------------------------------------------------
(* Concurrent puts, sentinel keys, update *)

\* Only puts and the background flusher have run.
OnlyPutsAndFlusher ==
    /\ \A k \in UserKeys : hist[k].puts = hist[k].writes
    /\ \A p \in DOMAIN ssts : ssts[p].via = "flusher"

\* C18: puts made by concurrent tasks through the engine's write lock, on
\* distinct or repeated keys, with rollovers and the flusher in between,
\* all return Ok, and once all are acknowledged get of every key put
\* returns the value last written to it.
C18_ConcurrentPutsAreRead ==
    /\ pc.op = "put" => pc.stage # "failed"
    /\ pc = Idle /\ OnlyPutsAndFlusher
           => \A k \in UserKeys :
                  hist[k].writes >= 1 => Get(k).ok /\ Get(k).value = hist[k].value

\* C19: a put, update or delete with the HEAD or TAIL sentinel key returns an
\* error and leaves the sentinel entries and the value log unchanged.
C19_SentinelKeysAreRejected ==
    [][pc = Idle /\ pc'.key \in {HEAD_ENTRY_KEY, TAIL_ENTRY_KEY}
          => /\ pc'.stage = "failed"
             /\ vlog' = vlog
             /\ heap'[active_memtable'.index] = heap[active_memtable.index]]_vars

\* C20: update(key, value) is put(key, value): from the same state and clock
\* reading both make the same step (result, value-log record, call in
\* flight and with it the entry and the rollover), and update succeeds for
\* a key that was never written.
C20_UpdateIsPut ==
    [][\A key \in UserKeys, value \in Values, t \in 1..MaxClock :
          /\ Update(key, value, t) <=> PutAppend(key, value, t)
          /\ Update(key, value, t) /\ hist[key].writes = 0
                 => pc'.stage = "appended" /\ vlog' = VLogAppend(vlog, key, value, t, FALSE)]_vars

\* An update of a key never written is in flight, the memtable rolled over.
C20_Witness ==
    /\ pc.op = "put"
    /\ pc.stage = "sealed"
    /\ hist[pc.key].writes = 0
    /\ hist[OtherKey(pc.key)].writes = 2

---------------------------------------------------------------------------
(* Rollover and the flush channel *)

\* C21: a put or delete that rolls the memtable over returns without waiting
\* for the flush channel: the call completes also when the channel is full
\* and nothing receives from it, the send being left to a spawned task.
C21_WriterNeverWaitsForChannel ==
    (pc.stage = "sealed") ~> (pc = Idle)

\* A call has returned while the channel was full: its message is still with
\* the spawned task.
C21_Witness ==
    /\ pc = Idle
    /\ Len(flush_chan) = FlushChanCap
    /\ send_tasks # <<>>
    /\ Len(read_only_memtables) > MaxBufferWriteNumber

\* C22: once a workload has filled the write buffer several times (the
\* read-only map holds max_buffer_write_number memtables), with the
\* background tasks scheduled fairly, the read-only map of the engine becomes
\* empty.
C22_ReadOnlyMapDrains ==
    (pc = Idle /\ Len(read_only_memtables) >= MaxBufferWriteNumber)
        ~> (read_only_memtables = <<>>)

\* An entry of key k is found by get: a value or a tombstone.
Visible(k) ==
    LET r == Get(k)
    IN r.ok \/ r.err \in {"KeyFoundAsTombstoneInMemtableError",
                          "KeyFoundAsTombstoneInSSTableError",
                          "KeyFoundAsTombstoneInValueLogError"}

\* The SST of the read-only memtable id is in a bucket, in the Bloom-filter
\* list and in the key index.
Registered(id) ==
    \E p \in DOMAIN ssts :
        /\ ssts[p].src = id
        /\ BucketPlaces(p) # {}
        /\ BloomPlaces(p) # {}
        /\ p \in DOMAIN biggest_key_index

ReadOnlyIds(tabs) == {tabs[i].id : i \in 1..Len(tabs)}

\* C23: a memtable leaves the read-only map only after its SST is in the
\* bucket map, the Bloom-filter list and the key index, and at every instant
\* every acknowledged key is found by get, in a memtable or in an SST.
C23_SealedMemtablesStayVisible ==
    /\ [](\A k \in UserKeys : hist[k].writes >= 1 => Visible(k))
    /\ [][\A id \in ReadOnlyIds(read_only_memtables) \ ReadOnlyIds(read_only_memtables') :
              Registered(id)']_vars

\* A memtable flushed by the background flusher has left the map and its key
\* is read from the SST.
C23_Witness ==
    /\ \E p \in DOMAIN ssts :
           /\ ssts[p].via = "flusher"
           /\ ssts[p].src \notin ReadOnlyIds(read_only_memtables)
    /\ \E k \in UserKeys : hist[k].writes >= 1 /\ NotInMemtables(k) /\ Get(k).ok

\* C24: after every rollover, by put or by delete and whatever the length of
\* the read-only map, the active memtable is a new memtable: when the call
\* returns it holds the one entry of the call, is not read-only and shares
\* no index with a read-only memtable.
C24_RolloverReplacesActive ==
    [][pc.stage = "sealed" /\ pc' = Idle
          => /\ DOMAIN heap'[active_memtable'.index] = {pc.key}
             /\ active_memtable'.size = EntryLength(pc.key)
             /\ ~active_memtable'.read_only
             /\ \A i \in 1..Len(read_only_memtables') :
                    read_only_memtables'[i].table.index # active_memtable'.index]_vars

\* C25: a read-only memtable is frozen: while it stays in the read-only map
\* its entries do not change.
C25_ReadOnlyMemtablesAreFrozen ==
    [][\A i \in 1..Len(read_only_memtables) :
          \A j \in 1..Len(read_only_memtables') :
              read_only_memtables'[j] = read_only_memtables[i]
                  => heap'[read_only_memtables'[j].table.index]
                         = heap[read_only_memtables[i].table.index]]_vars

\* C26: every memtable placed in the read-only map holds a HEAD entry that is
\* no tombstone, and the rollover sets the value-log head to its offset.
C26_SealedHoldHeadEntry ==
    [][pc.stage = "appended" /\ pc'.stage = "marked"
          => /\ HEAD_ENTRY_KEY \in DOMAIN heap'[active_memtable'.index]
             /\ ~heap'[active_memtable'.index][HEAD_ENTRY_KEY].tomb
             /\ heap'[active_memtable'.index][HEAD_ENTRY_KEY].off = vlog_head']_vars

\* C27: the value-log head never decreases.
C27_HeadNeverDecreases ==
    [][vlog_head' >= vlog_head]_vars

\* C28: a rollover sends the oldest read-only memtable exactly when the
\* read-only map, the sealed memtable added, holds more than
\* max_buffer_write_number memtables.
C28_SendsWhenMapExceeds ==
    [][pc.stage = "sealed" /\ pc' = Idle
          => (send_tasks' # send_tasks
                  <=> Len(read_only_memtables) > MaxBufferWriteNumber)]_vars

\* The messages made for the read-only memtable id: with a spawned task, in
\* the channel, or received and written to an SST by the flusher.
SendsOf(id) ==
    Cardinality({i \in 1..Len(send_tasks) : send_tasks[i].id = id})
        + Cardinality({i \in 1..Len(flush_chan) : flush_chan[i].id = id})
        + Cardinality({p \in DOMAIN ssts : ssts[p].via = "flusher" /\ ssts[p].src = id})

\* C29: each sealed memtable is sent to the flush channel at most once, so
\* the flusher writes no memtable to more than one SST.
C29_SentAtMostOnce ==
    \A id \in 1..next_id : SendsOf(id) <= 1

\* C30: when the value-log append of a put or delete fails, the call returns
\* the error and the active memtable, the read-only map, the value-log head
\* and the flush channel are as before: no rollover, no insert.
C30_FailedAppendChangesNothing ==
    [][pc'.stage = "failed" \/ pc.stage = "failed"
          => /\ UNCHANGED <<active_memtable, heap, read_only_memtables, vlog_head,
                            flush_chan, send_tasks, hist>>
             /\ pc.stage = "failed" => pc' = Idle]_vars

\* The append of a put failed on a full memtable, where the rollover would
\* have sent the oldest read-only memtable.
C30_Witness ==
    /\ pc.stage = "failed"
    /\ pc.op = "put"
    /\ is_full(active_memtable, Len(HEAD_ENTRY_KEY))
    /\ Len(read_only_memtables) + 1 >= MaxBufferWriteNumber

---------------------------------------------------------------------------
\* C31: after every acknowledged put or delete the size counter of the
\* active memtable is strictly below its capacity, for keys of any length.
C31_ActiveBelowCapacity ==
    [][hist' # hist => active_memtable'.size < Capacity]_vars

\* C32: get(K) returns Ok only for keys the user wrote: for a key never
\* passed to put or update, get returns an error in every reachable state.
C32_GetOkOnlyForWrittenKeys ==
    \A k \in AllKeys : hist[k].writes = 0 => ~Get(k).ok

\* The entries of a sentinel key in the SSTs on disk.
SstSentinels(key) ==
    {ssts[p].entries[key] : p \in {q \in DOMAIN ssts : key \in DOMAIN ssts[q].entries}}

\* off is the value offset of an entry of the set with the maximal created_at.
OffsetOfLatest(off, entries) ==
    \E e \in entries : e.off = off /\ \A f \in entries : f.ts <= e.ts

\* C33: after open on a non-empty store the head pointer is the value offset
\* of the HEAD sentinel entry with the maximal created_at over all SSTs, and
\* the tail pointer that of the TAIL sentinel entry with the maximal
\* created_at.
C33_RecoverySeedsPointersFromSsts ==
    OpenReturned /\ buckets # <<>>
        => /\ pc.stage = "opened"
           /\ SstSentinels(HEAD_ENTRY_KEY) # {}
                  => OffsetOfLatest(vlog_head, SstSentinels(HEAD_ENTRY_KEY))
           /\ SstSentinels(TAIL_ENTRY_KEY) # {}
                  => OffsetOfLatest(vlog_tail, SstSentinels(TAIL_ENTRY_KEY))

\* The memtables of the engine in the order they were filled: the read-only
\* map in insertion order, then the active memtable.
TablesInOrder ==
    [i \in 1..(Len(read_only_memtables) + 1) |->
        IF i <= Len(read_only_memtables) THEN read_only_memtables[i].table
        ELSE active_memtable]

\* The index entry a replay makes of the j-th record of the value log.
RecordEntry(j) == Entry(vlog[j].off, vlog[j].created_at, vlog[j].is_tombstone)

\* The records after the first that carry key.
LaterRecords(key) == {j \in 2..Len(vlog) : vlog[j].key = key}

\* C34: replay of the value log skips exactly the first record and inserts
\* every later record, in log order, with the byte offset at which the record
\* starts as value offset, sealing the active memtable whenever it is full.
C34_ReplayInsertsLaterRecords ==
    pc.stage = "opened"
        => LET T == TablesInOrder
               Idx(i) == heap[T[i].index]
           IN \* every entry held is the entry of a record after the first
              /\ \A i \in DOMAIN T : \A k \in DOMAIN Idx(i) :
                     \E j \in LaterRecords(k) : Idx(i)[k] = RecordEntry(j)
              \* every later record was inserted: the newest memtable holding
              \* its key holds the last record of that key
              /\ \A j \in 2..Len(vlog) :
                     \E i \in DOMAIN T :
                         /\ vlog[j].key \in DOMAIN Idx(i)
                         /\ Idx(i)[vlog[j].key].off >= vlog[j].off
                         /\ BloomContains(T[i].bloom, vlog[j].key)
              \* log order: an older memtable holds older records
              /\ \A i1, i2 \in DOMAIN T : \A k1 \in DOMAIN Idx(i1), k2 \in DOMAIN Idx(i2) :
                     i1 < i2 => Idx(i1)[k1].off < Idx(i2)[k2].off
              \* sealing: a memtable never takes an entry that does not fit
              /\ \A i \in DOMAIN T :
                     /\ T[i].size < Capacity
                     /\ T[i].read_only = (i <= Len(read_only_memtables))

\* The value log of replayed engine holds a put of a user key after two
\* records of different sizes, and the replay sealed a memtable.
C34_Witness ==
    /\ pc.stage = "opened"
    /\ Len(read_only_memtables) >= 1
    /\ \E j \in 3..Len(vlog) :
           /\ vlog[j].key \in UserKeys
           /\ vlog[j].off # (j - 1) * RecordSize(vlog[j].key, vlog[j].value)
           /\ TableGet(heap, active_memtable, vlog[j].key) = RecordEntry(j)

---------------------------------------------------------------------------
(* The memtable object *)

\* The index of the memtable the calls are made on.
MemIndex == heap[active_memtable.index]

\* C35: memtable insert never fails and, on every call, an overwrite of a
\* present key included, increases the size counter by exactly
\* len(key) + 4 + 8 + 1 and leaves key mapped to the tuple of the entry; the
\* size counter never decreases except through clear.
C35_InsertAlwaysGrowsSize ==
    [][/\ \A key \in MemtableKeys, off \in EntryOffsets, tomb \in BOOLEAN :
              MemtableInsert(key, off, now, tomb)
                  => /\ pc'.stage = "returned"
                     /\ active_memtable'.size = active_memtable.size + Len(key) + 4 + 8 + 1
                     /\ MemIndex'[key] = Entry(off, now, tomb)
                     /\ TableGet(heap, active_memtable, key)' = Entry(off, now, tomb)
       /\ active_memtable'.size < active_memtable.size => pc'.op = "clear"]_vars

\* An insert has overwritten the only key of the memtable: the size counter
\* counts both inserts.
C35_Witness ==
    /\ pc = Returned("insert", pc.key)
    /\ DOMAIN MemIndex = {pc.key}
    /\ active_memtable.size = 2 * (Len(pc.key) + 13)

\* InMemoryTable::get on the memtable of the calls.
MemGet(key) == TableGet(heap, active_memtable, key)

\* C36: memtable get(key) returns the tuple of the most recent insert, update
\* or delete of the key when the key was inserted since the last clear, and
\* None for every key that was not inserted, also when the Bloom filter gives
\* a false positive for it. As steps: a call that returns Ok for a key that
\* get finds (or an insert) leaves get(key) at its tuple, a key changes from
\* None to found by an insert of that key only, and a call leaves the answer
\* for every other key as it was.
C36_GetReturnsLatestOfInsertedKeys ==
    [][/\ \A key \in MemtableKeys :
              MemGet(key) = NoEntry /\ MemGet(key)' # NoEntry
                  => pc' = Returned("insert", key)
       /\ \A key \in MemtableKeys, off \in EntryOffsets, tomb \in BOOLEAN :
              /\ MemtableInsert(key, off, now, tomb) => MemGet(key)' = Entry(off, now, tomb)
              /\ MemtableUpdate(key, off, now, tomb) /\ MemGet(key) # NoEntry
                     => MemGet(key)' = Entry(off, now, tomb)
              /\ MemtableDelete(key, off, tomb, now') /\ MemGet(key) # NoEntry
                     => MemGet(key)'.off = off /\ MemGet(key)'.ts = now'
       /\ \A key \in MemtableKeys :
              pc'.op # "clear" /\ pc'.key # key => MemGet(key)' = MemGet(key)
       /\ pc'.op = "clear" => \A key \in MemtableKeys : MemGet(key)' = NoEntry]_vars

\* C37: memtable delete(entry) behaves as an insert of the key with
\* is_tombstone forced to true and a freshly sampled timestamp: after a
\* successful call get(key) reports is_tombstone = true, whatever the flag of
\* the entry passed, and the size counter grew by len(key) + 13; it fails,
\* leaving the memtable unchanged, exactly when the Bloom filter rejects the key.
C37_DeleteForcesTombstone ==
    [][\A key \in MemtableKeys, off \in EntryOffsets, tomb \in BOOLEAN :
           MemtableDelete(key, off, tomb, now')
               => IF BloomContains(active_memtable.bloom, key)
                  THEN /\ pc'.stage = "returned"
                       /\ MemGet(key)' = Entry(off, now', TRUE)
                       /\ active_memtable'.size = active_memtable.size + Len(key) + 13
                  ELSE /\ pc'.stage = "failed"
                       /\ UNCHANGED <<active_memtable, heap>>]_vars

---------------------------------------------------------------------------
(* The key-range index *)

C39_RangeScanReturnsIntersecting ==
    key_ranges.scan.made
        => LET lo == key_ranges.scan.start_key
               hi == key_ranges.scan.end_key
           IN key_ranges.scan.found =
                  {p \in DOMAIN key_ranges.ranges :
                      /\ ~BytesLess(hi, key_ranges.ranges[p].smallest_key)
                      /\ ~BytesLess(key_ranges.ranges[p].biggest_key, lo)}

\* C40: for every SST registered by a flush, the key-range entry of its path
\* bounds its contents: the registered biggest key is the last key of the
\* flushed memtable in key order, so every key stored in the SST (sentinel
\* keys included) is less than or equal to it; flushing an empty memtable
\* fails with BiggestKeyIndexError (nothing is registered for it, and
\* flush_all_memtables returns before it clears the memtables).
C40_BiggestKeyBoundsSst ==
    /\ [](\A p \in DOMAIN biggest_key_index :
              /\ p \in DOMAIN ssts
              /\ biggest_key_index[p] \in DOMAIN ssts[p].entries
              /\ \A k \in DOMAIN ssts[p].entries :
                     ~BytesLess(biggest_key_index[p], k))
    /\ [](\A p \in DOMAIN ssts :
              DOMAIN ssts[p].entries = {} => p \notin DOMAIN biggest_key_index)
    /\ [][FlushAll /\ DOMAIN heap[active_memtable.index] = {}
              => /\ UNCHANGED <<active_memtable, read_only_memtables>>
                 /\ biggest_key_index' = biggest_key_index]_vars

\* An SST holding a user key and sentinel keys is registered, and a flush of
\* an empty memtable has failed.
C40_Witness ==
    /\ \E p \in DOMAIN biggest_key_index :
           /\ DOMAIN ssts[p].entries \cap UserKeys # {}
           /\ HEAD_ENTRY_KEY \in DOMAIN ssts[p].entries
           /\ biggest_key_index[p] \notin UserKeys
    /\ \E p \in DOMAIN ssts : DOMAIN ssts[p].entries = {}

=============================================================================
